---- MODULE Spec2Model ----
(***************************************************************************)
(* A model of the img2caps registry and design scripts:                    *)
(*   fix_color_registry_codes.py   normalize_code and the registry fixer   *)
(*   build_color_registry.py       sample_color and the registry builder   *)
(*   generate_design_from_image.py nearest_yuzu_color and the generator    *)
(*   build_key_position_registry.py parse_key_layout, validation, main     *)
(*   create_hex_color_registry.py  rgb_to_hex and the inverse registry     *)
(* Strings are sequences of one-character strings.  A Python dict is a     *)
(* sequence of <<key, value>> pairs with distinct keys, in insertion       *)
(* order.  Each script has a specification of its own; the variables of    *)
(* the other scripts stay idle in it.                                      *)
(***************************************************************************)
EXTENDS Integers, Sequences, FiniteSets, TLC

VARIABLES
    \* normalize_code applied once and twice to one input string
    ncode, nout1, nout2, npc,
    \* sample_color applied to one image: the image, the box cropped, the
    \* colour returned
    simg, sbox, sres, spc,
    \* build_color_registry.main: the keycap files, the loop index, the
    \* registry dict, the printed lines
    bfiles, bi, bregistry, blog, bpc,
    \* the color registry document on disk
    regfile,
    \* fix_color_registry_codes.main: the arguments, the loaded registry, the
    \* loop index, remapped, changed, the printed warnings, the document
    \* written to --out
    fargs, fregistry, fi, remapped, changed, fwarn, fout, fpc,
    \* nearest_yuzu_color applied to one query and palette
    qrgb, qpalette, qres, qpc,
    \* generate_design_from_image.main: the key registry, palette and base
    \* template documents, the input image, bbox_map, the loop index,
    \* customized_colors, the last lookup, the exception that ended the run,
    \* the output document and whether it was written
    dregistry, dpalette, dbase, dimg, bbox_map, di, customized_colors,
    dlookup, derror, dout, dwritten, dpc,
    \* the positions of bbox_map whose key has been processed
    dworked,
    \* create_hex_color_registry: the input document, the loop index,
    \* hex_registry, the document written, the value returned
    hin, hi, hex_registry, hout, hres, hpc,
    \* build_key_position_registry.main: the key elements of the layout
    \* document, the loop index, raw, min_x, min_y, the registry returned by
    \* parse_key_layout, the registry document written, the reference document
    \* read by validate_against_sample, the lines printed
    layout, gi, raw, min_x, min_y, registry, gout, sample, glog, gpc

normVars == <<ncode, nout1, nout2, npc>>

sampleVars == <<simg, sbox, sres, spc>>

buildVars == <<bfiles, bi, bregistry, blog, bpc>>

fixVars == <<fargs, fregistry, fi, remapped, changed, fwarn, fout, fpc>>

nearVars == <<qrgb, qpalette, qres, qpc>>

designVars ==
    <<dregistry, dpalette, dbase, dimg, bbox_map, di, customized_colors,
      dlookup, derror, dout, dwritten, dpc, dworked>>

hexVars == <<hin, hi, hex_registry, hout, hres, hpc>>

geoVars == <<layout, gi, raw, min_x, min_y, registry, gout, sample, glog, gpc>>

vars ==
    <<normVars, sampleVars, buildVars, regfile, fixVars, nearVars, designVars,
      geoVars, hexVars>>

\* The variables of the scripts other than the one named
otherThanNorm == <<sampleVars, buildVars, regfile, fixVars, nearVars, designVars,
    geoVars, hexVars>>

otherThanSample == <<normVars, buildVars, regfile, fixVars, nearVars, designVars,
    geoVars, hexVars>>

otherThanBuild == <<normVars, sampleVars, fixVars, nearVars, designVars,
    geoVars, hexVars>>

otherThanFix == <<normVars, sampleVars, buildVars, nearVars, designVars,
    geoVars, hexVars>>

otherThanNear == <<normVars, sampleVars, buildVars, regfile, fixVars, designVars,
    geoVars, hexVars>>

otherThanDesign == <<normVars, sampleVars, buildVars, regfile, fixVars, nearVars,
    geoVars, hexVars>>

otherThanGeo ==
    <<normVars, sampleVars, buildVars, regfile, fixVars, nearVars, designVars,
      hexVars>>

otherThanHex ==
    <<normVars, sampleVars, buildVars, regfile, fixVars, nearVars, designVars,
      geoVars>>

(***************************************************************************)
(* Generic helpers                                                         *)
(***************************************************************************)
Range(s) == {s[i] : i \in 1..Len(s)}

\* All sequences over S of length 0..n
SeqsUpTo(S, n) == UNION {[1..k -> S] : k \in 0..n}

\* Python dict helpers over a sequence of <<key, value>> pairs
DictKeys(d) == {d[i][1] : i \in 1..Len(d)}

DictHas(d, k) == \E i \in 1..Len(d) : d[i][1] = k

DictGet(d, k) == d[CHOOSE i \in 1..Len(d) : d[i][1] = k][2]

\* d[k] = v : an existing key keeps its position, a new key is appended
DictSet(d, k, v) ==
    IF DictHas(d, k)
    THEN [i \in 1..Len(d) |-> IF d[i][1] = k THEN <<k, v>> ELSE d[i]]
    ELSE Append(d, <<k, v>>)

(***************************************************************************)
(* Characters and the two regular expressions of the code fixer            *)
(***************************************************************************)
NL == "\n"

Upper == {"A", "B", "C", "D", "E", "F", "G", "H", "I", "J", "K", "L", "M",
          "N", "O", "P", "Q", "R", "S", "T", "U", "V", "W", "X", "Y", "Z"}

DigitChars == <<"0", "1", "2", "3", "4", "5", "6", "7", "8", "9">>

Digit == Range(DigitChars)

AllDigits(s) == \A i \in 1..Len(s) : s[i] \in Digit

\* The `$` of a Python pattern matches at the end of the string and also just
\* before a newline that ends the string: the text the pattern body must cover.
DollarBody(s) ==
    IF Len(s) > 0 /\ s[Len(s)] = NL THEN SubSeq(s, 1, Len(s) - 1) ELSE s

\* CODE_RE = ^([A-Z]{2})(\d+)$
CODE_RE_Match(s) ==
    LET t == DollarBody(s)
    IN  /\ Len(t) >= 3
        /\ t[1] \in Upper
        /\ t[2] \in Upper
        /\ AllDigits(SubSeq(t, 3, Len(t)))

CODE_RE_Groups(s) ==
    LET t == DollarBody(s)
    IN  <<SubSeq(t, 1, 2), SubSeq(t, 3, Len(t))>>

\* I_MIS_OCR_RE = ^([A-Z]{2})I(\d+)$
I_MIS_OCR_RE_Match(s) ==
    LET t == DollarBody(s)
    IN  /\ Len(t) >= 4
        /\ t[1] \in Upper
        /\ t[2] \in Upper
        /\ t[3] = "I"
        /\ AllDigits(SubSeq(t, 4, Len(t)))

I_MIS_OCR_RE_Groups(s) ==
    LET t == DollarBody(s)
    IN  <<SubSeq(t, 1, 2), SubSeq(t, 4, Len(t))>>

\* int(digits) for a string of decimal digits
DigitVal(c) == (CHOOSE i \in 1..10 : DigitChars[i] = c) - 1

RECURSIVE ParseInt(_)
ParseInt(s) ==
    IF Len(s) = 0 THEN 0
    ELSE 10 * ParseInt(SubSeq(s, 1, Len(s) - 1)) + DigitVal(s[Len(s)])

\* str(n) for n >= 0
RECURSIVE DecStr(_)
DecStr(n) ==
    IF n < 10 THEN <<DigitChars[n + 1]>>
    ELSE Append(DecStr(n \div 10), DigitChars[(n % 10) + 1])

\* f"{n:03d}" : decimal digits, left-padded with zeros to at least 3
Format03d(n) ==
    LET d == DecStr(n)
    IN  IF Len(d) >= 3 THEN d
        ELSE [i \in 1..(3 - Len(d)) |-> "0"] \o d

(***************************************************************************)
(* normalize_code                                                          *)
(***************************************************************************)
\* Step 1 alone: two letters + 'I' + digits becomes two letters + '1' + digits
FixMisOcr(code) ==
    IF I_MIS_OCR_RE_Match(code)
    THEN LET g == I_MIS_OCR_RE_Groups(code)
         IN  g[1] \o <<"1">> \o g[2]
    ELSE code

\* Step 2 alone: pad the digit run of a CODE_RE match to 3 digits
PadDigits(code) ==
    IF ~CODE_RE_Match(code) THEN code
    ELSE LET g == CODE_RE_Groups(code)
         IN  IF Len(g[2]) >= 3 THEN code
             ELSE g[1] \o Format03d(ParseInt(g[2]))

\* A fixer that pads without ever reading back what it wrote: it prepends one
\* zero per call instead of padding to width 3.
normalize_code_PadOneZero(code) ==
    LET c == FixMisOcr(code)
    IN  IF ~CODE_RE_Match(c) THEN c
        ELSE LET g == CODE_RE_Groups(c)
             IN  IF Len(g[2]) >= 3 THEN c ELSE g[1] \o <<"0">> \o g[2]

normalize_code(code) == PadDigits(FixMisOcr(code))

(***************************************************************************)
(* Specification SpecNormalize: normalize_code on every bounded string     *)
(***************************************************************************)
\* Input alphabet: letters, the letter I, digits, a lower-case letter, newline
CodeAlphabet == {"G", "R", "I", "0", "2", "7", "x", NL}

MaxCodeLen == 5

CodeStrings == SeqsUpTo(CodeAlphabet, MaxCodeLen)

NormIdle ==
    /\ ncode = <<>>
    /\ nout1 = <<>>
    /\ nout2 = <<>>
    /\ npc = "idle"

NormStart ==
    /\ ncode \in CodeStrings
    /\ nout1 = <<>>
    /\ nout2 = <<>>
    /\ npc = "start"

NormalizeOnce ==
    /\ npc = "start"
    /\ nout1' = normalize_code(ncode)
    /\ npc' = "once"
    /\ UNCHANGED <<ncode, nout2, otherThanNorm>>

NormalizeAgain ==
    /\ npc = "once"
    /\ nout2' = normalize_code(nout1)
    /\ npc' = "twice"
    /\ UNCHANGED <<ncode, nout1, otherThanNorm>>

(***************************************************************************)
(* sample_color (build_color_registry.py)                                  *)
(* An image is [width, height, xsplit, ysplit]: rows from ysplit down show *)
(* Glare, and above them the columns left of xsplit show Paint and the     *)
(* others Outlier.                                                         *)
(***************************************************************************)
Min(a, b) == IF a < b THEN a ELSE b

Paint == <<200, 60, 60>>

Outlier == <<0, 0, 0>>

Glare == <<255, 255, 255>>

SwatchColors == {Paint, Outlier, Glare}

PixelAt(img, x, y) ==
    IF y >= img.ysplit THEN Glare
    ELSE IF x < img.xsplit THEN Paint ELSE Outlier

\* The nominal sampling rectangle (x 70-170, y 25-80)
REGION_LEFT == 70

REGION_RIGHT == 170

REGION_TOP == 25

REGION_BOTTOM == 80

\* A crop box that is the nominal rectangle whatever the image
SampleBox_Unclamped(img) ==
    [left |-> REGION_LEFT, right |-> REGION_RIGHT,
     top |-> REGION_TOP, bottom |-> REGION_BOTTOM]

\* The crop box (left, top, right, bottom) of sample_color
SampleBox(img) ==
    [left   |-> Min(REGION_LEFT, img.width - 1),
     right  |-> Min(REGION_RIGHT, img.width),
     top    |-> Min(REGION_TOP, img.height - 1),
     bottom |-> Min(REGION_BOTTOM, img.height)]

\* image.crop(box): the pixel positions of the box, right and bottom excluded
CropCoords(box) ==
    {<<x, y>> : x \in box.left..(box.right - 1), y \in box.top..(box.bottom - 1)}

\* The k-th smallest (k from 1) of the values f[p], p in the domain of f:
\* the element at index k-1 of the sorted array
KthSmallest(f, k) ==
    CHOOSE v \in {f[p] : p \in DOMAIN f} :
        /\ Cardinality({p \in DOMAIN f : f[p] < v}) < k
        /\ Cardinality({p \in DOMAIN f : f[p] <= v}) >= k

\* int(np.median(values)): the middle element, or the mean of the two middle
\* elements truncated to an integer
MedianInt(f) ==
    LET n == Cardinality(DOMAIN f)
    IN  IF n % 2 = 1 THEN KthSmallest(f, (n \div 2) + 1)
        ELSE (KthSmallest(f, n \div 2) + KthSmallest(f, (n \div 2) + 1)) \div 2

\* int(np.mean(values))
MeanInt(f) ==
    LET RECURSIVE Sum(_)
        Sum(S) == IF S = {} THEN 0
                  ELSE LET p == CHOOSE q \in S : TRUE IN f[p] + Sum(S \ {p})
    IN  Sum(DOMAIN f) \div Cardinality(DOMAIN f)

\* A sampler that averages the region instead of taking its median
sample_color_Mean(img) ==
    LET coords == CropCoords(SampleBox(img))
    IN  [ch \in 1..3 |->
            MeanInt([p \in coords |-> PixelAt(img, p[1], p[2])[ch]])]

sample_color(img) ==
    LET coords == CropCoords(SampleBox(img))
    IN  [ch \in 1..3 |->
            MedianInt([p \in coords |-> PixelAt(img, p[1], p[2])[ch]])]

MaxImgWidth == 90

MaxImgHeight == 27

\* Where the images enumerated change colour
XSplits == {0, 71, 80, 81, 89}

YSplits == {26, 28}

\* Sizes around the nominal rectangle's right and bottom edges
FullWidths == {169, 170, 171}

FullHeights == {79, 80, 81}

Images ==
    [width : 1..MaxImgWidth, height : 1..MaxImgHeight,
     xsplit : XSplits, ysplit : YSplits]
    \cup [width : FullWidths, height : FullHeights, xsplit : {71}, ysplit : {26}]

NoBox == [left |-> 0, right |-> 0, top |-> 0, bottom |-> 0]

SampleIdle ==
    /\ simg = [width |-> 1, height |-> 1, xsplit |-> 0, ysplit |-> 0]
    /\ sbox = NoBox
    /\ sres = <<>>
    /\ spc = "idle"

SampleStart ==
    /\ simg \in Images
    /\ sbox = NoBox
    /\ sres = <<>>
    /\ spc = "start"

SampleColor ==
    /\ spc = "start"
    /\ sbox' = SampleBox(simg)
    /\ sres' = sample_color(simg)
    /\ spc' = "done"
    /\ UNCHANGED <<simg, otherThanSample>>

(***************************************************************************)
(* String order (Python compares str by code point) and sort_keys=True     *)
(***************************************************************************)
CharOrder ==
    <<NL, ".">> \o DigitChars \o
    <<"A", "B", "C", "D", "E", "F", "G", "H", "I", "J", "K", "L", "M",
      "N", "O", "P", "Q", "R", "S", "T", "U", "V", "W", "X", "Y", "Z">> \o
    <<"g", "j", "p", "x">>

CharRank(c) == CHOOSE i \in 1..Len(CharOrder) : CharOrder[i] = c

RECURSIVE StrLess(_, _)
StrLess(a, b) ==
    IF Len(b) = 0 THEN FALSE
    ELSE IF Len(a) = 0 THEN TRUE
    ELSE IF a[1] = b[1] THEN StrLess(Tail(a), Tail(b))
    ELSE CharRank(a[1]) < CharRank(b[1])

\* sorted(S) for a set of strings
RECURSIVE SortedStrings(_)
SortedStrings(S) ==
    IF S = {} THEN <<>>
    ELSE LET m == CHOOSE a \in S : \A b \in S \ {a} : StrLess(a, b)
         IN  <<m>> \o SortedStrings(S \ {m})

\* json.dump(d, sort_keys=True) followed by json.load: the dict in key order
SortKeys(d) ==
    LET ks == SortedStrings(DictKeys(d))
    IN  [i \in 1..Len(ks) |-> <<ks[i], DictGet(d, ks[i])>>]

(***************************************************************************)
(* build_color_registry.main                                               *)
(***************************************************************************)
\* color_file_pattern = ^[A-Z]{1,3}[0-9]{1,3}\.jpg$ on a name stem + ".jpg"
ColorFilePattern(stem) ==
    \E k \in 1..3 :
        /\ Len(stem) - k \in 1..3
        /\ \A i \in 1..k : stem[i] \in Upper
        /\ AllDigits(SubSeq(stem, k + 1, Len(stem)))

JpgName(stem) == stem \o <<".", "j", "p", "g">>

\* The one-pixel keycap photos of the files enumerated
PaintPhoto == [width |-> 1, height |-> 1, xsplit |-> 1, ysplit |-> 1]

OutlierPhoto == [width |-> 1, height |-> 1, xsplit |-> 0, ysplit |-> 1]

\* The stems of the *.jpg files a keycaps directory may hold
FileStems ==
    {<<"G", "R", "2", "7">>, <<"G", "R", "0", "2", "7">>,
     <<"G", "R", "I", "7">>, <<"G", "R", "1", "7">>,
     <<"G", "2">>, <<"x", "2">>}

\* A file is [stem, ok, img]: ok is whether Image.open succeeds
FileStates ==
    {[ok |-> FALSE, img |-> PaintPhoto],
     [ok |-> TRUE, img |-> PaintPhoto],
     [ok |-> TRUE, img |-> OutlierPhoto]}

\* sorted(keycaps_dir.glob("*.jpg")) for a choice of present files
SortedFiles(present, state) ==
    LET names == SortedStrings({JpgName(st) : st \in present})
        StemOf(n) == CHOOSE st \in present : JpgName(st) = n
    IN  [i \in 1..Len(names) |->
            [stem |-> StemOf(names[i]),
             ok   |-> state[StemOf(names[i])].ok,
             img  |-> state[StemOf(names[i])].img]]

BuildIdle ==
    /\ bfiles = <<>>
    /\ bi = 0
    /\ bregistry = <<>>
    /\ blog = <<>>
    /\ bpc = "idle"

BuildStart ==
    /\ \E present \in SUBSET FileStems :
         \E state \in [FileStems -> FileStates] :
            /\ \A st \in FileStems \ present : state[st] = [ok |-> FALSE, img |-> PaintPhoto]
            /\ bfiles = SortedFiles(present, state)
    /\ bi = 1
    /\ bregistry = <<>>
    /\ blog = <<>>
    /\ bpc = "loop"

\* One iteration of `for img_path in sorted(keycaps_dir.glob("*.jpg"))`
BuildStep ==
    /\ bpc = "loop"
    /\ bi <= Len(bfiles)
    /\ LET f == bfiles[bi]
       IN  IF ~ColorFilePattern(f.stem)
           THEN /\ blog' = Append(blog, <<"skip", f.stem>>)
                /\ UNCHANGED bregistry
           ELSE IF ~f.ok
           THEN /\ blog' = Append(blog, <<"error", f.stem>>)
                /\ UNCHANGED bregistry
           ELSE /\ bregistry' = DictSet(bregistry, f.stem,
                                   [file |-> f.stem, rgb |-> sample_color(f.img)])
                /\ blog' = Append(blog, <<"ok", f.stem>>)
    /\ bi' = bi + 1
    /\ UNCHANGED <<bfiles, bpc, regfile, otherThanBuild>>

\* json.dump(registry, f, indent=2, sort_keys=True)
BuildSave ==
    /\ bpc = "loop"
    /\ bi > Len(bfiles)
    /\ regfile' = SortKeys(bregistry)
    /\ bpc' = "done"
    /\ UNCHANGED <<bfiles, bi, bregistry, blog, otherThanBuild>>

(***************************************************************************)
(* fix_color_registry_codes.main                                           *)
(***************************************************************************)
\* `if new_code in remapped`
IsDuplicate_Never(rm, new_code) == FALSE

IsDuplicate(rm, new_code) == DictHas(rm, new_code)

FixIdle ==
    /\ fargs = [dry_run |-> FALSE, out_is_registry |-> TRUE]
    /\ fregistry = <<>>
    /\ fi = 0
    /\ remapped = <<>>
    /\ changed = <<>>
    /\ fwarn = <<>>
    /\ fout = <<>>
    /\ fpc = "idle"

FixStart ==
    /\ fargs \in [dry_run : BOOLEAN, out_is_registry : BOOLEAN]
    /\ fregistry = <<>>
    /\ fi = 0
    /\ remapped = <<>>
    /\ changed = <<>>
    /\ fwarn = <<>>
    /\ fout = <<>>
    /\ fpc = "load"

\* registry = json.load(f)
FixLoad ==
    /\ fpc = "load"
    /\ bpc \in {"idle", "done"}
    /\ fregistry' = regfile
    /\ fi' = 1
    /\ fpc' = "loop"
    /\ UNCHANGED <<fargs, remapped, changed, fwarn, fout, regfile>>
    /\ UNCHANGED otherThanFix

\* One iteration of `for code, entry in registry.items()`
FixStep ==
    /\ fpc = "loop"
    /\ fi <= Len(fregistry)
    /\ LET code == fregistry[fi][1]
           entry == fregistry[fi][2]
           new_code == normalize_code(code)
       IN  IF IsDuplicate(remapped, new_code)
           THEN /\ fwarn' = Append(fwarn, <<code, new_code>>)
                /\ UNCHANGED <<remapped, changed>>
           ELSE /\ changed' = IF new_code # code
                              THEN Append(changed, <<code, new_code>>)
                              ELSE changed
                /\ remapped' = DictSet(remapped, new_code, entry)
                /\ UNCHANGED fwarn
    /\ fi' = fi + 1
    /\ UNCHANGED <<fargs, fregistry, fout, fpc, regfile>>
    /\ UNCHANGED otherThanFix

\* changed.sort(): the (old, new) pairs in the order of their old codes, which
\* are distinct
SortChanged(ch) ==
    LET olds == SortedStrings({ch[i][1] : i \in 1..Len(ch)})
    IN  [i \in 1..Len(olds) |-> CHOOSE pr \in Range(ch) : pr[1] = olds[i]]

\* changed.sort(), then the dry-run return or the write of args.out
FixFinish ==
    /\ fpc = "loop"
    /\ fi > Len(fregistry)
    /\ changed' = SortChanged(changed)
    /\ IF fargs.dry_run
       THEN /\ fpc' = "dry_done"
            /\ UNCHANGED <<fout, regfile>>
       ELSE /\ fpc' = "done"
            /\ fout' = SortKeys(remapped)
            /\ regfile' = IF fargs.out_is_registry THEN SortKeys(remapped) ELSE regfile
    /\ UNCHANGED <<fargs, fregistry, fi, remapped, fwarn>>
    /\ UNCHANGED otherThanFix

\* The registry documents the fixer is run on directly: up to MaxRegistry
\* entries with distinct codes, in any order
MaxRegistry == 3

RegistryEntries == {<<c, [file |-> c, rgb |-> col]>> : c \in FileStems, col \in {Paint, Outlier}}

RegistryDocs ==
    {d \in SeqsUpTo(RegistryEntries, MaxRegistry) :
        \A i, j \in 1..Len(d) : i # j => d[i][1] # d[j][1]}

(***************************************************************************)
(* nearest_yuzu_color (generate_design_from_image.py)                      *)
(***************************************************************************)
\* rgb_distance: np.linalg.norm of the difference.  The model keeps the sum of
\* squares under the root: on integer channels 0..255 the sums are integers up
\* to 195075, whose double-precision roots are distinct and in the same order.
rgb_distance(c1, c2) ==
    (c1[1] - c2[1]) * (c1[1] - c2[1])
    + (c1[2] - c2[2]) * (c1[2] - c2[2])
    + (c1[3] - c2[3]) * (c1[3] - c2[3])

\* best_code = None, best_dist = float("inf")
NoBest == [code_none |-> TRUE, code |-> <<>>, dist_inf |-> TRUE, dist |-> 0]

\* A loop body that records the code and forgets `best_dist = dist`
NearestStep_KeepInf(best, code, dist) ==
    IF best.dist_inf \/ dist < best.dist
    THEN [code_none |-> FALSE, code |-> code, dist_inf |-> TRUE, dist |-> dist]
    ELSE best

\* `if dist < best_dist: best_dist = dist; best_code = code`
NearestStep(best, code, dist) ==
    IF best.dist_inf \/ dist < best.dist
    THEN [code_none |-> FALSE, code |-> code, dist_inf |-> FALSE, dist |-> dist]
    ELSE best

\* `for code, entry in palette.items()` from entry i on
RECURSIVE NearestLoop(_, _, _, _)
NearestLoop(rgb, palette, i, best) ==
    IF i > Len(palette) THEN best
    ELSE NearestLoop(rgb, palette, i + 1,
            NearestStep(best, palette[i][1], rgb_distance(rgb, palette[i][2].rgb)))

\* A lookup without the assertion: it returns None, here [none |-> TRUE]
nearest_yuzu_color_NoAssert(rgb, palette) ==
    LET best == NearestLoop(rgb, palette, 1, NoBest)
    IN  [raised |-> FALSE, none |-> best.code_none, code |-> best.code]

\* The result is [raised, none, code]: raised is the AssertionError of
\* `assert best_code is not None`
nearest_yuzu_color(rgb, palette) ==
    LET best == NearestLoop(rgb, palette, 1, NoBest)
    IN  IF best.code_none
        THEN [raised |-> TRUE, none |-> TRUE, code |-> <<>>]
        ELSE [raised |-> FALSE, none |-> FALSE, code |-> best.code]

\* The palette documents enumerated: up to MaxPalette entries with distinct
\* codes, in any order
PaletteCodes ==
    {<<"A", "0", "0", "1">>, <<"A", "0", "0", "2">>, <<"A", "0", "0", "3">>}

PaletteRGBs == {<<0, 0, 0>>, <<10, 10, 10>>, <<255, 255, 255>>, <<5, 0, 0>>}

QueryRGBs == {<<5, 5, 5>>, <<10, 10, 10>>, <<200, 60, 60>>, <<0, 4, 3>>}

MaxPalette == 3

PaletteEntries ==
    {<<c, [file |-> c, rgb |-> col]>> : c \in PaletteCodes, col \in PaletteRGBs}

PaletteDocs ==
    {d \in SeqsUpTo(PaletteEntries, MaxPalette) :
        \A i, j \in 1..Len(d) : i # j => d[i][1] # d[j][1]}

NoResult == [raised |-> FALSE, none |-> TRUE, code |-> <<>>]

NearIdle ==
    /\ qrgb = <<0, 0, 0>>
    /\ qpalette = <<>>
    /\ qres = NoResult
    /\ qpc = "idle"

NearStart ==
    /\ qrgb \in QueryRGBs
    /\ qpalette \in PaletteDocs
    /\ qres = NoResult
    /\ qpc = "start"

NearestLookup ==
    /\ qpc = "start"
    /\ qres' = nearest_yuzu_color(qrgb, qpalette)
    /\ qpc' = IF qres'.raised THEN "raised" ELSE "done"
    /\ UNCHANGED <<qrgb, qpalette, otherThanNear>>

(***************************************************************************)
(* generate_design_from_image.main                                         *)
(* A key of the registry document keeps the four fields the generator      *)
(* reads, in units of 0.0001 layout unit (the stored precision).  The      *)
(* image is its width and, for each box cropped from it, the outcome of    *)
(* dominant_color on that crop (Pillow's resize and median-cut).           *)
(***************************************************************************)
KeyIds == {"k1", "k2", "k3"}

KeyBoxes ==
    {[left_u |-> 0, top_u |-> 0, right_u |-> 10000, bottom_u |-> 10000],
     [left_u |-> 10000, top_u |-> 0, right_u |-> 20000, bottom_u |-> 10000],
     [left_u |-> 0, top_u |-> 0, right_u |-> 0, bottom_u |-> 10000]}

MaxKeys == 2

KeyRegistryDocs ==
    {d \in SeqsUpTo(KeyIds \X KeyBoxes, MaxKeys) :
        \A i, j \in 1..Len(d) : i # j => d[i][1] # d[j][1]}

MaxDesignPalette == 2

DesignPaletteDocs ==
    {d \in PaletteDocs :
        /\ Len(d) <= MaxDesignPalette
        /\ \A i \in 1..Len(d) : d[i][2].rgb \in {<<0, 0, 0>>, <<255, 255, 255>>}}

\* The base template: customizedColor may already hold entries
BaseDocs ==
    {[customizedColor |-> cc, customizedTemplate |-> <<>>, name |-> "base"] :
        cc \in {<<>>,
                <<(<<"k1", (<<"A", "0", "0", "3">>)>>),
                  (<<"zz", (<<"A", "0", "0", "3">>)>>)>>}}

ImageWidths == {1, 40}

\* The colours dominant_color may return: one nearest to black and one
\* nearest to white
DomRGBs == {<<5, 5, 5>>, <<250, 250, 250>>}

\* max(key["right_u"] for key in registry.values())
MaxRightU(reg) ==
    CHOOSE m \in {reg[i][2].right_u : i \in 1..Len(reg)} :
        \A i \in 1..Len(reg) : reg[i][2].right_u <= m

\* int(key[field] * px_per_u) with px_per_u = image.width / total_width_u:
\* the exact product truncated (all values are non-negative; the rounding of
\* the float quotient and product is not modelled)
ToPixels(u, width, total_width_u) == (u * width) \div total_width_u

\* build_keyboard_bbox_map for a non-empty registry of positive total width
BuildBboxMap(width, reg) ==
    LET total_width_u == MaxRightU(reg)
    IN  [i \in 1..Len(reg) |->
            <<reg[i][1],
              <<ToPixels(reg[i][2].left_u, width, total_width_u),
                ToPixels(reg[i][2].top_u, width, total_width_u),
                ToPixels(reg[i][2].right_u, width, total_width_u),
                ToPixels(reg[i][2].bottom_u, width, total_width_u)>>>>]

\* Whether build_keyboard_bbox_map raises: max() of an empty sequence
\* (ValueError) or a division by a zero total width (ZeroDivisionError)
BboxRaises(reg) ==
    IF Len(reg) = 0 THEN "ValueError"
    ELSE IF MaxRightU(reg) = 0 THEN "ZeroDivisionError"
    ELSE "no"

EmptyBox(bbox) == bbox[3] <= bbox[1] \/ bbox[4] <= bbox[2]

\* The boxes a run crops, and the outcomes dominant_color may have on each:
\* a colour, or for a box without pixels also an exception
BoxesOf(width, reg) ==
    IF BboxRaises(reg) # "no" THEN {}
    ELSE {BuildBboxMap(width, reg)[i][2] : i \in 1..Len(reg)}

DomOutcomes(bbox) ==
    {[raised |-> FALSE, rgb |-> c] : c \in DomRGBs}
    \cup (IF EmptyBox(bbox) THEN {[raised |-> TRUE, rgb |-> <<0, 0, 0>>]} ELSE {})

DomChoices(boxes) ==
    {f \in [boxes -> UNION {DomOutcomes(b) : b \in boxes}] :
        \A b \in boxes : f[b] \in DomOutcomes(b)}

\* dominant_color(img.crop(bbox))
dominant_color(img, bbox) == img.dom[bbox]

\* A template fill that updates the template's map instead of replacing it
FillTemplate_Update(base, colors) ==
    LET RECURSIVE Upd(_, _)
        Upd(d, i) == IF i > Len(colors) THEN d
                     ELSE Upd(DictSet(d, colors[i][1], colors[i][2]), i + 1)
    IN  [base EXCEPT !.customizedColor = Upd(base.customizedColor, 1)]

\* A template fill that starts from an empty document
FillTemplate_Fresh(base, colors) == [customizedColor |-> colors]

\* base_json["customizedColor"] = customized_colors
FillTemplate(base, colors) == [base EXCEPT !.customizedColor = colors]

\* A store that files each result under the key at the position of its
\* arrival
StoreColor_ByArrival(colors, key_id, code) ==
    Append(colors, <<bbox_map[Len(colors) + 1][1], code>>)

\* customized_colors[key_id] = yuzu_code
StoreColor(colors, key_id, code) == DictSet(colors, key_id, code)

NoDoc == [customizedColor |-> <<>>, customizedTemplate |-> <<>>, name |-> "none"]

DesignIdle ==
    /\ dregistry = <<>>
    /\ dpalette = <<>>
    /\ dbase = NoDoc
    /\ dimg = [exists |-> FALSE, width |-> 1, dom |-> <<>>]
    /\ bbox_map = <<>>
    /\ di = 0
    /\ customized_colors = <<>>
    /\ dlookup = NoResult
    /\ derror = "none"
    /\ dout = NoDoc
    /\ dwritten = FALSE
    /\ dworked = {}
    /\ dpc = "idle"

DesignStart ==
    /\ dregistry \in KeyRegistryDocs
    /\ dpalette \in DesignPaletteDocs
    /\ dbase \in BaseDocs
    /\ \E w \in ImageWidths, ex \in BOOLEAN :
         \E f \in DomChoices(BoxesOf(w, dregistry)) :
            dimg = [exists |-> ex, width |-> w, dom |-> f]
    /\ bbox_map = <<>>
    /\ di = 0
    /\ customized_colors = <<>>
    /\ dlookup = NoResult
    /\ derror = "none"
    /\ dout = NoDoc
    /\ dwritten = FALSE
    /\ dworked = {}
    /\ dpc = "args"

\* The argument checks: a missing input image ends the run with exit status 1
DesignCheckArgs ==
    /\ dpc = "args"
    /\ dpc' = IF dimg.exists THEN "bbox" ELSE "exit1"
    /\ UNCHANGED <<dregistry, dpalette, dbase, dimg, bbox_map, di,
                   customized_colors, dlookup, derror, dout, dwritten, dworked>>
    /\ UNCHANGED otherThanDesign

\* Steps 1-3: load the documents, open the image, build the bbox map
DesignBbox ==
    /\ dpc = "bbox"
    /\ IF BboxRaises(dregistry) # "no"
       THEN /\ derror' = BboxRaises(dregistry)
            /\ dpc' = "aborted"
            /\ UNCHANGED <<bbox_map, di>>
       ELSE /\ bbox_map' = BuildBboxMap(dimg.width, dregistry)
            /\ di' = 1
            /\ dpc' = "loop"
            /\ UNCHANGED derror
    /\ UNCHANGED <<dregistry, dpalette, dbase, dimg, customized_colors,
                   dlookup, dout, dwritten, dworked>>
    /\ UNCHANGED otherThanDesign

\* Step 4: one iteration of `for key_id, bbox in bbox_map.items()`
DesignStep ==
    /\ dpc = "loop"
    /\ di <= Len(bbox_map)
    /\ LET key_id == bbox_map[di][1]
           dom == dominant_color(dimg, bbox_map[di][2])
           found == nearest_yuzu_color(dom.rgb, dpalette)
       IN  IF dom.raised
           THEN /\ derror' = "dominant_color"
                /\ dpc' = "aborted"
                /\ UNCHANGED <<customized_colors, dlookup, di, dworked>>
           ELSE IF found.raised
           THEN /\ dlookup' = found
                /\ derror' = "AssertionError"
                /\ dpc' = "aborted"
                /\ UNCHANGED <<customized_colors, di, dworked>>
           ELSE /\ dlookup' = found
                /\ customized_colors' = StoreColor(customized_colors, key_id, found.code)
                /\ di' = di + 1
                /\ dworked' = dworked \cup {di}
                /\ UNCHANGED <<derror, dpc>>
    /\ UNCHANGED <<dregistry, dpalette, dbase, dimg, bbox_map, dout, dwritten>>
    /\ UNCHANGED otherThanDesign

\* Step 5: fill the base template and write the output document
DesignWrite ==
    /\ dpc = "loop"
    /\ di > Len(bbox_map)
    /\ dout' = FillTemplate(dbase, customized_colors)
    /\ dwritten' = TRUE
    /\ dpc' = "done"
    /\ UNCHANGED <<dregistry, dpalette, dbase, dimg, bbox_map, di,
                   customized_colors, dlookup, derror, dworked>>
    /\ UNCHANGED otherThanDesign

\* The loop body of step 4 run for the keys in any order, as by workers that
\* each take a key not yet processed and add its result to customized_colors
WorkerStep ==
    /\ dpc = "loop"
    /\ \E k \in (1..Len(bbox_map)) \ dworked :
         LET key_id == bbox_map[k][1]
             dom == dominant_color(dimg, bbox_map[k][2])
             found == nearest_yuzu_color(dom.rgb, dpalette)
         IN  IF dom.raised
             THEN /\ derror' = "dominant_color"
                  /\ dpc' = "aborted"
                  /\ UNCHANGED <<customized_colors, dlookup, dworked>>
             ELSE IF found.raised
             THEN /\ dlookup' = found
                  /\ derror' = "AssertionError"
                  /\ dpc' = "aborted"
                  /\ UNCHANGED <<customized_colors, dworked>>
             ELSE /\ dlookup' = found
                  /\ customized_colors' = StoreColor(customized_colors, key_id, found.code)
                  /\ dworked' = dworked \cup {k}
                  /\ UNCHANGED <<derror, dpc>>
    /\ UNCHANGED <<dregistry, dpalette, dbase, dimg, bbox_map, di, dout, dwritten>>
    /\ UNCHANGED otherThanDesign

\* Step 5 once every key has been processed
WorkersWrite ==
    /\ dpc = "loop"
    /\ dworked = 1..Len(bbox_map)
    /\ dout' = FillTemplate(dbase, customized_colors)
    /\ dwritten' = TRUE
    /\ dpc' = "done"
    /\ UNCHANGED <<dregistry, dpalette, dbase, dimg, bbox_map, di,
                   customized_colors, dlookup, derror, dworked>>
    /\ UNCHANGED otherThanDesign

(***************************************************************************)
(* parse_key_layout (build_key_position_registry.py)                       *)
(* Positions and sizes in layout units are integers counting 0.00001 unit, *)
(* so a value rounded to 4 decimals is a multiple of 10; rect sizes are in *)
(* hundredths of a millimetre.                                             *)
(***************************************************************************)
\* UNIT_MM = 19.05, in hundredths of a millimetre
UNIT_MM == 1905

\* round(n / d) to the nearest integer, for d odd (no ties)
RoundDiv(n, d) == (2 * n + d) \div (2 * d)

\* A value counted in 0.00001 that lies halfway between two multiples of
\* 0.0001
IsTie(v) == v % 10 = 5

\* round(v, 4) of a non-negative value counted in 0.00001: to the nearest
\* multiple of 10.  The float that stands for a decimal tie lies a little
\* above or a little below it (round(0.00005, 4) is 0.0001 and
\* round(0.00005 + 0.9449, 4) is 0.9449), so a tie goes the way `up` says.
Round4(v, up) ==
    LET q == v \div 10
        r == v % 10
    IN  IF r < 5 THEN 10 * q
        ELSE IF r > 5 THEN 10 * (q + 1)
        ELSE IF up THEN 10 * (q + 1) ELSE 10 * q

\* The ways the float standing for v may round
Dirs(v) == IF IsTie(v) THEN BOOLEAN ELSE {FALSE}

\* round(mm / UNIT_MM, 4)
MmToUnits(mm) == 10 * RoundDiv(mm * 10000, UNIT_MM)

\* A position attribute is absent, a plain decimal ("1.0"), a decimal inside
\* other text ("[-1.5]", which float() rejects), or text without a number
FloatAccepts(attr) == attr.kind \in {"absent", "plain"}

\* float(elem.get(name, 0))
FloatOf(attr) == IF attr.kind = "absent" THEN 0 ELSE attr.val

\* re.findall(...) on elem.get(name, "0") finds a token
HasNumber(attr) == attr.kind # "none"

\* float(re.findall(...)[0])
FirstNumber(attr) == IF attr.kind = "absent" THEN 0 ELSE attr.val

\* The try/except of lines 28-33: [raised, x_u, y_u], raised being the
\* IndexError of `[0]` on an empty findall, which nothing catches
ParsePosition(elem) ==
    IF FloatAccepts(elem.x) /\ FloatAccepts(elem.y)
    THEN [raised |-> FALSE, x_u |-> FloatOf(elem.x), y_u |-> FloatOf(elem.y)]
    ELSE IF HasNumber(elem.x) /\ HasNumber(elem.y)
    THEN [raised |-> FALSE, x_u |-> FirstNumber(elem.x), y_u |-> FirstNumber(elem.y)]
    ELSE [raised |-> TRUE, x_u |-> 0, y_u |-> 0]

\* float("inf") and min(m, v)
Infinity == [inf |-> TRUE, val |-> 0]

MinWith(m, v) ==
    IF m.inf \/ v < m.val THEN [inf |-> FALSE, val |-> v] ELSE m

\* The entry of the second pass for one raw tuple; `up` says which way each
\* of the four rounded sums goes when it is a tie
MakeEntry(r, mx, my, up) ==
    LET norm_x == r.x_u - mx
        norm_y == r.y_u - my
    IN  [label    |-> r.label,
         x_u      |-> r.x_u,
         y_u      |-> r.y_u,
         width_u  |-> r.width_u,
         height_u |-> r.height_u,
         left_u   |-> Round4(norm_x, up.left),
         top_u    |-> Round4(norm_y, up.top),
         right_u  |-> Round4(norm_x + r.width_u, up.right),
         bottom_u |-> Round4(norm_y + r.height_u, up.bottom)]

\* The entries the second pass may build for one raw tuple
MakeEntries(r, mx, my) ==
    {MakeEntry(r, mx, my, up) :
        up \in [left   : Dirs(r.x_u - mx),
                top    : Dirs(r.y_u - my),
                right  : Dirs(r.x_u - mx + r.width_u),
                bottom : Dirs(r.y_u - my + r.height_u)]}

\* The second pass: `for ... in raw: registry[key_id] = entry`, as the set of
\* registries it may build from the registries regs
RECURSIVE SecondPass(_, _, _, _, _)
SecondPass(rw, i, mx, my, regs) ==
    IF i > Len(rw) THEN regs
    ELSE SecondPass(rw, i + 1, mx, my,
                    {DictSet(reg, rw[i].key_id, e) :
                        reg \in regs, e \in MakeEntries(rw[i], mx, my)})

\* The key elements enumerated
LayoutIds == {"k1", "k2"}

XAttrs ==
    {[kind |-> "plain", val |-> 100000],
     [kind |-> "plain", val |-> 250004],
     [kind |-> "embedded", val |-> -150000],
     [kind |-> "none", val |-> 0]}

YAttrs ==
    {[kind |-> "plain", val |-> 100000],
     [kind |-> "plain", val |-> 5],
     [kind |-> "embedded", val |-> 300000],
     [kind |-> "absent", val |-> 0]}

Rects ==
    {[present |-> FALSE, width |-> 0, height |-> 0],
     [present |-> TRUE, width |-> 1905, height |-> 1905],
     [present |-> TRUE, width |-> 1800, height |-> 3810]}

KeyElements == [key_id : LayoutIds, label : {"Shift"}, x : XAttrs, y : YAttrs, rect : Rects]

MaxElems == 2

\* Key ids in the order of sorted(): str order by code point
IdOrder == <<"k1", "k2", "k3">>

RECURSIVE SortedIdsFrom(_, _)
SortedIdsFrom(S, i) ==
    IF i > Len(IdOrder) THEN <<>>
    ELSE (IF IdOrder[i] \in S THEN <<IdOrder[i]>> ELSE <<>>) \o SortedIdsFrom(S, i + 1)

\* sorted(S) for a set of key ids
SortedIds(S) == SortedIdsFrom(S, 1)

\* json.dump(registry, ..., sort_keys=True): the entries in key order
SortIds(reg) ==
    LET ks == SortedIds(DictKeys(reg))
    IN  [i \in 1..Len(ks) |-> <<ks[i], DictGet(reg, ks[i])>>]

\* The reference document sample_json.json: the file may be missing, and each
\* of its three sections is absent or a map, of which the keys matter
Sections == <<"customizedColor", "customizedTemplate", "customizedContent">>

NoSample == [exists |-> FALSE, customizedColor |-> [present |-> FALSE, keys |-> {}],
             customizedTemplate |-> [present |-> FALSE, keys |-> {}],
             customizedContent |-> [present |-> FALSE, keys |-> {}]]

Section(ks) == [present |-> TRUE, keys |-> ks]

NoSection == [present |-> FALSE, keys |-> {}]

SampleDoc(cc, ct, cn) ==
    [exists |-> TRUE, customizedColor |-> cc, customizedTemplate |-> ct,
     customizedContent |-> cn]

SampleDocs ==
    {NoSample,
     SampleDoc(NoSection, NoSection, NoSection),
     SampleDoc(Section({"k1"}), NoSection, Section({})),
     SampleDoc(Section({"k1"}), Section({"k2"}), NoSection),
     SampleDoc(Section({"k1", "k3"}), NoSection, Section({"k3"})),
     SampleDoc(NoSection, Section({"k2"}), Section({"k2", "k3"}))}

\* sample.get(section, {}).keys()
SectionKeys(doc, section) ==
    LET sec == IF section = "customizedColor" THEN doc.customizedColor
               ELSE IF section = "customizedTemplate" THEN doc.customizedTemplate
               ELSE doc.customizedContent
    IN  IF sec.present THEN sec.keys ELSE {}

\* referenced_ids after the loop over the three sections
ReferencedIds(doc) == UNION {SectionKeys(doc, Sections[i]) : i \in 1..Len(Sections)}

\* A validation that takes the ids of either side for missing
MissingIds_Symmetric(reg, doc) ==
    (ReferencedIds(doc) \ DictKeys(reg)) \cup (DictKeys(reg) \ ReferencedIds(doc))

\* missing = referenced_ids.difference(registry.keys())
MissingIds(reg, doc) == ReferencedIds(doc) \ DictKeys(reg)

\* extra = set(registry.keys()).difference(referenced_ids)
ExtraIds(reg, doc) == DictKeys(reg) \ ReferencedIds(doc)

\* One printed line: its tag, the number it carries, the ids it lists
Line(tag, n, ids) == [tag |-> tag, n |-> n, ids |-> ids]

\* The lines validate_against_sample prints
ValidationLines(reg, doc) ==
    IF ~doc.exists THEN <<Line("warn", 0, <<>>)>>
    ELSE LET missing == MissingIds(reg, doc)
             extra == ExtraIds(reg, doc)
         IN  (IF missing # {}
              THEN <<Line("error", Cardinality(missing), <<>>),
                     Line("list", 0, SortedIds(missing))>>
              ELSE <<Line("ok", 0, <<>>)>>)
             \o (IF extra # {}
                 THEN <<Line("info", Cardinality(extra), <<>>)>>
                 ELSE <<>>)

GeoIdle ==
    /\ layout = <<>>
    /\ gi = 0
    /\ raw = <<>>
    /\ min_x = Infinity
    /\ min_y = Infinity
    /\ registry = <<>>
    /\ gout = <<>>
    /\ sample = NoSample
    /\ glog = <<>>
    /\ gpc = "idle"

GeoStart ==
    /\ layout \in SeqsUpTo(KeyElements, MaxElems)
    /\ gi = 1
    /\ raw = <<>>
    /\ min_x = Infinity
    /\ min_y = Infinity
    /\ registry = <<>>
    /\ gout = <<>>
    /\ sample = NoSample
    /\ glog = <<>>
    /\ gpc = "first"

\* One iteration of the first pass over the elements with a data-key-id
FirstPassStep ==
    /\ gpc = "first"
    /\ gi <= Len(layout)
    /\ LET elem == layout[gi]
           pos == ParsePosition(elem)
       IN  IF pos.raised
           THEN /\ gpc' = "raised"
                /\ UNCHANGED <<gi, raw, min_x, min_y>>
           ELSE /\ min_x' = MinWith(min_x, pos.x_u)
                /\ min_y' = MinWith(min_y, pos.y_u)
                /\ raw' = IF ~elem.rect.present THEN raw
                          ELSE Append(raw,
                                 [key_id   |-> elem.key_id,
                                  x_u      |-> pos.x_u,
                                  y_u      |-> pos.y_u,
                                  width_u  |-> MmToUnits(elem.rect.width),
                                  height_u |-> MmToUnits(elem.rect.height),
                                  label    |-> elem.label])
                /\ gi' = gi + 1
                /\ UNCHANGED gpc
    /\ UNCHANGED <<layout, registry, gout, sample, glog, otherThanGeo>>

\* The second pass and the return of the registry
SecondPassAndReturn ==
    /\ gpc = "first"
    /\ gi > Len(layout)
    /\ registry' \in SecondPass(raw, 1, min_x.val, min_y.val, {<<>>})
    /\ gpc' = "done"
    /\ UNCHANGED <<layout, gi, raw, min_x, min_y, gout, sample, glog, otherThanGeo>>

\* main, lines 112-116: the registry is written with sort_keys=True and the
\* number of keys is printed
GeoSave ==
    /\ gpc = "done"
    /\ gout' = SortIds(registry)
    /\ glog' = Append(glog, Line("saved", Len(registry), <<>>))
    /\ gpc' = "saved"
    /\ UNCHANGED <<layout, gi, raw, min_x, min_y, registry, sample, otherThanGeo>>

\* validate_against_sample(registry, sample_json_path), the reference
\* document being whatever the file holds when it is read
Validate ==
    /\ gpc = "saved"
    /\ \E doc \in SampleDocs :
          /\ sample' = doc
          /\ glog' = glog \o ValidationLines(registry, doc)
    /\ gpc' = "validated"
    /\ UNCHANGED <<layout, gi, raw, min_x, min_y, registry, gout, otherThanGeo>>

(***************************************************************************)
(* create_hex_color_registry (create_hex_color_registry.py)                *)
(* The input document maps a colour code to its data; of the data the rgb  *)
(* list matters, and whether its elements are integers (format 'x' raises  *)
(* ValueError for a float).                                                *)
(***************************************************************************)
HexDigitChars ==
    <<"0", "1", "2", "3", "4", "5", "6", "7", "8", "9", "a", "b", "c", "d", "e", "f">>

\* format(n, 'x') for n >= 0
RECURSIVE HexStr(_)
HexStr(n) ==
    IF n < 16 THEN <<HexDigitChars[n + 1]>>
    ELSE HexStr(n \div 16) \o <<HexDigitChars[(n % 16) + 1]>>

\* '{:02x}'.format(n): zero-padded to a width of at least 2
Format02x(n) == IF n < 16 THEN <<"0">> \o HexStr(n) ELSE HexStr(n)

\* rgb_to_hex(rgb)
rgb_to_hex(rgb) ==
    <<"#">> \o Format02x(rgb[1]) \o Format02x(rgb[2]) \o Format02x(rgb[3])

\* The input documents enumerated: the file may be unreadable
HexData ==
    {[rgb |-> <<0, 0, 0>>, integral |-> TRUE],
     [rgb |-> <<255, 10, 171>>, integral |-> TRUE],
     [rgb |-> <<10, 10>>, integral |-> TRUE],
     [rgb |-> <<1, 2, 3>>, integral |-> FALSE]}

MaxHexRegistry == 2

HexDocs ==
    {d \in SeqsUpTo(PaletteCodes \X HexData, MaxHexRegistry) :
        \A i, j \in 1..Len(d) : i # j => d[i][1] # d[j][1]}

HexInputs ==
    {[readable |-> FALSE, doc |-> <<>>]} \cup {[readable |-> TRUE, doc |-> d] : d \in HexDocs}

HexIdle ==
    /\ hin = [readable |-> FALSE, doc |-> <<>>]
    /\ hi = 0
    /\ hex_registry = <<>>
    /\ hout = <<>>
    /\ hres = "none"
    /\ hpc = "idle"

HexStart ==
    /\ hin \in HexInputs
    /\ hi = 0
    /\ hex_registry = <<>>
    /\ hout = <<>>
    /\ hres = "none"
    /\ hpc = "load"

\* Lines 16-17: an input file that cannot be read or parsed raises, and the
\* except clause returns False
HexLoad ==
    /\ hpc = "load"
    /\ IF hin.readable
       THEN /\ hi' = 1
            /\ hpc' = "loop"
            /\ UNCHANGED hres
       ELSE /\ hres' = "False"
            /\ hpc' = "failed"
            /\ UNCHANGED hi
    /\ UNCHANGED <<hin, hex_registry, hout, otherThanHex>>

\* One iteration of `for color_code, data in color_registry.items()`
HexStep ==
    /\ hpc = "loop"
    /\ hi <= Len(hin.doc)
    /\ LET color_code == hin.doc[hi][1]
           data == hin.doc[hi][2]
       IN  IF Len(data.rgb) # 3
           THEN /\ hi' = hi + 1
                /\ UNCHANGED <<hex_registry, hres, hpc>>
           ELSE IF ~data.integral
           THEN /\ hres' = "False"
                /\ hpc' = "failed"
                /\ UNCHANGED <<hex_registry, hi>>
           ELSE /\ hex_registry' = DictSet(hex_registry, rgb_to_hex(data.rgb), color_code)
                /\ hi' = hi + 1
                /\ UNCHANGED <<hres, hpc>>
    /\ UNCHANGED <<hin, hout, otherThanHex>>

\* Lines 28-37: the document is written and True returned
HexWrite ==
    /\ hpc = "loop"
    /\ hi > Len(hin.doc)
    /\ hout' = hex_registry
    /\ hres' = "True"
    /\ hpc' = "done"
    /\ UNCHANGED <<hin, hi, hex_registry, otherThanHex>>

(***************************************************************************)
(* Specifications                                                          *)
(***************************************************************************)
NormInit ==
    /\ NormStart
    /\ SampleIdle /\ BuildIdle /\ FixIdle /\ regfile = <<>> /\ NearIdle /\ DesignIdle
    /\ GeoIdle
    /\ HexIdle

NormNext == NormalizeOnce \/ NormalizeAgain

SpecNormalize == NormInit /\ [][NormNext]_vars

SampleInit ==
    /\ SampleStart
    /\ NormIdle /\ BuildIdle /\ FixIdle /\ regfile = <<>> /\ NearIdle /\ DesignIdle
    /\ GeoIdle
    /\ HexIdle

SampleNext == SampleColor

SpecSample == SampleInit /\ [][SampleNext]_vars

NearInit ==
    /\ NearStart
    /\ NormIdle /\ SampleIdle /\ BuildIdle /\ FixIdle /\ regfile = <<>> /\ DesignIdle
    /\ GeoIdle
    /\ HexIdle

NearNext == NearestLookup

SpecNearest == NearInit /\ [][NearNext]_vars

DesignInit ==
    /\ DesignStart
    /\ NormIdle /\ SampleIdle /\ BuildIdle /\ FixIdle /\ regfile = <<>> /\ NearIdle
    /\ GeoIdle
    /\ HexIdle

DesignNext == DesignCheckArgs \/ DesignBbox \/ DesignStep \/ DesignWrite

SpecDesign == DesignInit /\ [][DesignNext]_vars

\* The design run with the keys processed in any order
WorkersNext == DesignCheckArgs \/ DesignBbox \/ WorkerStep \/ WorkersWrite

\* The order of the keys matters to neither the argument checks nor the
\* template, so the runs start from an image that exists, of the larger
\* width, and a template with an empty map
WorkersInit ==
    /\ dregistry \in KeyRegistryDocs
    /\ dpalette \in DesignPaletteDocs
    /\ dbase \in {d \in BaseDocs : d.customizedColor = <<>>}
    /\ \E f \in DomChoices(BoxesOf(40, dregistry)) :
          dimg = [exists |-> TRUE, width |-> 40, dom |-> f]
    /\ bbox_map = <<>>
    /\ di = 0
    /\ customized_colors = <<>>
    /\ dlookup = NoResult
    /\ derror = "none"
    /\ dout = NoDoc
    /\ dwritten = FALSE
    /\ dworked = {}
    /\ dpc = "args"
    /\ NormIdle /\ SampleIdle /\ BuildIdle /\ FixIdle /\ regfile = <<>> /\ NearIdle
    /\ GeoIdle
    /\ HexIdle

SpecDesignWorkers == WorkersInit /\ [][WorkersNext]_vars

GeoInit ==
    /\ GeoStart
    /\ NormIdle /\ SampleIdle /\ BuildIdle /\ FixIdle /\ regfile = <<>> /\ NearIdle
    /\ DesignIdle
    /\ HexIdle

GeoNext == FirstPassStep \/ SecondPassAndReturn \/ GeoSave \/ Validate

SpecGeometry == GeoInit /\ [][GeoNext]_vars

HexInit ==
    /\ HexStart
    /\ NormIdle /\ SampleIdle /\ BuildIdle /\ FixIdle /\ regfile = <<>> /\ NearIdle
    /\ DesignIdle /\ GeoIdle

HexNext == HexLoad \/ HexStep \/ HexWrite

SpecHex == HexInit /\ [][HexNext]_vars

\* The fixer run on a registry document
FixerInit ==
    /\ FixStart
    /\ regfile \in RegistryDocs
    /\ NormIdle /\ SampleIdle /\ BuildIdle /\ NearIdle /\ DesignIdle
    /\ GeoIdle
    /\ HexIdle

FixerNext == FixLoad \/ FixStep \/ FixFinish

SpecFixer == FixerInit /\ [][FixerNext]_vars

\* The pipeline: build_color_registry, then the fixer on the registry it wrote
PipelineInit ==
    /\ BuildStart
    /\ FixStart
    /\ regfile = <<>>
    /\ NormIdle /\ SampleIdle /\ NearIdle /\ DesignIdle
    /\ GeoIdle
    /\ HexIdle

PipelineNext == BuildStep \/ BuildSave \/ FixLoad \/ FixStep \/ FixFinish

SpecPipeline == PipelineInit /\ [][PipelineNext]_vars

(***************************************************************************)
(* C3, C4: normalize_code                                                  *)
(***************************************************************************)

\* C3: normalize_code is idempotent: normalizing the result of a first
\* normalization returns that result unchanged, for every input string.
C3_NormalizeIdempotent == npc = "twice" => nout2 = nout1

\* C3 witness: an input that needed both the I-to-1 fix and a changed result
\* has been normalized twice.
C3_Witness ==
    /\ npc = "twice"
    /\ ncode = <<"G", "R", "I", "7">>
    /\ nout1 = <<"G", "R", "0", "1", "7">>

\* The two-step rule as the specification words it: step 2 applies to one to
\* three upper-case letters followed by digits, and an unmatched string is
\* returned unchanged.
SpecPadMatch(s) ==
    \E k \in 1..3 :
        /\ Len(s) > k
        /\ \A i \in 1..k : s[i] \in Upper
        /\ AllDigits(SubSeq(s, k + 1, Len(s)))
        /\ s[k + 1] \in Digit

SpecPrefixLen(s) == CHOOSE k \in 1..3 :
    /\ Len(s) > k
    /\ \A i \in 1..k : s[i] \in Upper
    /\ AllDigits(SubSeq(s, k + 1, Len(s)))

SpecIMatch(s) ==
    /\ Len(s) >= 4
    /\ s[1] \in Upper
    /\ s[2] \in Upper
    /\ s[3] = "I"
    /\ AllDigits(SubSeq(s, 4, Len(s)))

SpecRule(code) ==
    LET c == IF SpecIMatch(code)
             THEN SubSeq(code, 1, 2) \o <<"1">> \o SubSeq(code, 4, Len(code))
             ELSE code
    IN  IF ~SpecPadMatch(c) THEN c
        ELSE LET k == SpecPrefixLen(c)
                 digits == SubSeq(c, k + 1, Len(c))
             IN  IF Len(digits) >= 3 THEN c
                 ELSE SubSeq(c, 1, k)
                      \o [i \in 1..(3 - Len(digits)) |-> "0"] \o digits

\* C4: for every input string normalize_code returns the result of the
\* two-step rule (I-to-1 fix, then padding of a one-to-three letter code to 3
\* digits), and returns any other string unchanged.
C4_NormalizeFollowsRule == npc # "start" => nout1 = SpecRule(ncode)

(***************************************************************************)
(* C10: sample_color                                                       *)
(***************************************************************************)
\* The number of pixels of the sampled region that show colour c
RegionCount(img, c) ==
    Cardinality({p \in CropCoords(SampleBox(img)) : PixelAt(img, p[1], p[2]) = c})

RegionSize(img) == Cardinality(CropCoords(SampleBox(img)))

Canonical(code) ==
    \E k \in 1..3 :
        /\ Len(code) = k + 3
        /\ \A i \in 1..k : code[i] \in Upper
        /\ AllDigits(SubSeq(code, k + 1, Len(code)))

\* C5: after build_color_registry followed by the code fixer, every key of the
\* resulting color registry is a letter prefix of one to three letters followed
\* by exactly 3 digits.
C5_PipelineKeysCanonical ==
    fpc = "done" => \A k \in DictKeys(fout) : Canonical(k)

\* The canonical code of the i-th raw entry, and whether the entry is the
\* first of the loaded registry with that canonical code
CanonAt(i) == normalize_code(fregistry[i][1])

FirstWith(i) == \A j \in 1..(i - 1) : CanonAt(j) # CanonAt(i)

FixLoopOver == fpc \in {"done", "dry_done"} \/ (fpc = "loop" /\ fi > Len(fregistry))

\* C6: when the fixer has gone through a registry, every canonical code holds
\* exactly one output entry, the entry of the first raw code normalizing to
\* it; every later raw entry is dropped with exactly one warning, so output
\* entries plus warnings equal input entries; the document written holds the
\* same entries.
C6_FirstWinsOneWarningEach ==
    FixLoopOver =>
        /\ DictKeys(remapped) = {CanonAt(i) : i \in 1..Len(fregistry)}
        /\ Cardinality(DictKeys(remapped)) = Len(remapped)
        /\ \A i \in 1..Len(fregistry) :
              FirstWith(i) => DictGet(remapped, CanonAt(i)) = fregistry[i][2]
        /\ Len(fwarn) = Cardinality({i \in 1..Len(fregistry) : ~FirstWith(i)})
        /\ \A i \in 1..Len(fregistry) :
              ~FirstWith(i) => <<fregistry[i][1], CanonAt(i)>> \in Range(fwarn)
        /\ Len(remapped) + Len(fwarn) = Len(fregistry)
        /\ fpc = "done" => Range(fout) = Range(remapped)

\* C6 witness: raw codes GR27 then GR027 with different colours have been
\* fixed into one entry under GR027 carrying the first entry, with one warning.
C6_Witness ==
    /\ fpc = "done"
    /\ Len(fregistry) = 2
    /\ fregistry[1] = <<(<<"G", "R", "2", "7">>),
                        [file |-> <<"G", "R", "2", "7">>, rgb |-> Paint]>>
    /\ fregistry[2] = <<(<<"G", "R", "0", "2", "7">>),
                        [file |-> <<"G", "R", "0", "2", "7">>, rgb |-> Outlier]>>
    /\ fout = <<(<<(<<"G", "R", "0", "2", "7">>),
                   [file |-> <<"G", "R", "2", "7">>, rgb |-> Paint]>>)>>
    /\ fwarn = <<(<<(<<"G", "R", "0", "2", "7">>), (<<"G", "R", "0", "2", "7">>)>>)>>

(***************************************************************************)
(* C7, C8: nearest_yuzu_color                                              *)
(***************************************************************************)
\* The sum of squared per-channel differences of two RGB triples
SumSq(a, b) ==
    LET Sq(x) == x * x
    IN  Sq(a[1] - b[1]) + Sq(a[2] - b[2]) + Sq(a[3] - b[3])

\* The codes of the palette whose colour is at minimum distance from the query
NearestCodes(rgb, palette) ==
    {palette[i][1] : i \in
        {i \in 1..Len(palette) :
            \A j \in 1..Len(palette) :
                SumSq(rgb, palette[i][2].rgb) <= SumSq(rgb, palette[j][2].rgb)}}

\* C7: for every non-empty palette and every query, nearest_yuzu_color returns
\* a code of the palette whose colour has minimum sum of squared per-channel
\* differences to the query: no other entry is strictly closer.
C7_NearestIsMinimum ==
    (qpc # "start" /\ Len(qpalette) > 0) =>
        /\ qpc = "done"
        /\ qres.code \in NearestCodes(qrgb, qpalette)

\* C7 witness: a lookup in a palette of three entries whose nearest entry is
\* neither its first nor its last one.
C7_Witness ==
    /\ qpc = "done"
    /\ Len(qpalette) = 3
    /\ qres.code = qpalette[2][1]
    /\ NearestCodes(qrgb, qpalette) = {qpalette[2][1]}

\* C8: when several entries are at the same minimum distance the lookup
\* returns the one whose code is first in sorted code order, whatever the
\* order in which the palette stores its entries.
C8_TieGoesToSortedFirst ==
    (qpc = "done" /\ Len(qpalette) > 0) =>
        qres.code = SortedStrings(NearestCodes(qrgb, qpalette))[1]

(***************************************************************************)
(* C2, C9: the design generator                                            *)
(***************************************************************************)
\* C2: the design document written has a customizedColor map whose keys are
\* exactly the key ids of the registry, one entry per key (no id of the base
\* template's map is kept), and every value is a code of the palette.
C2_CustomizedColorCoversRegistry ==
    dwritten =>
        /\ DictKeys(dout.customizedColor) = DictKeys(dregistry)
        /\ Len(dout.customizedColor) = Len(dregistry)
        /\ \A i \in 1..Len(dout.customizedColor) :
              dout.customizedColor[i][2] \in DictKeys(dpalette)

\* C2 witness: a document was written for a registry of two keys over a base
\* template whose map held an id outside the registry.
C2_Witness ==
    /\ dwritten
    /\ Len(dregistry) = 2
    /\ Len(dpalette) = 2
    /\ "zz" \in DictKeys(dbase.customizedColor)
    /\ "zz" \notin DictKeys(dregistry)

\* C9: with an empty palette no lookup ever returns a code (a lookup made ends
\* the run with the assertion error), no code is assigned to any key, and the
\* run never writes an output document nor finishes normally.
C9_EmptyPaletteAborts ==
    Len(dpalette) = 0 =>
        /\ ~dwritten
        /\ dout = NoDoc
        /\ dpc # "done"
        /\ customized_colors = <<>>
        /\ (dlookup # NoResult => dlookup.raised /\ dpc = "aborted"
                                   /\ derror = "AssertionError")

\* C9 witness: a run over an empty palette reached a lookup and was aborted
\* by its assertion, with nothing written.
C9_Witness ==
    /\ Len(dpalette) = 0
    /\ dlookup.raised
    /\ dpc = "aborted"
    /\ derror = "AssertionError"
    /\ ~dwritten

(***************************************************************************)
(* C1: parse_key_layout                                                    *)
(***************************************************************************)
\* The minimum of one field over the entries of a non-empty registry
MinField(reg, Field(_)) ==
    CHOOSE m \in {Field(reg[i][2]) : i \in 1..Len(reg)} :
        \A i \in 1..Len(reg) : m <= Field(reg[i][2])

\* C1: every non-empty registry returned by parse_key_layout has minimum
\* left_u 0 and minimum top_u 0, whatever the offsets of the input and also
\* when some key records are skipped.
C1_MinLeftTopZero ==
    (gpc = "done" /\ Len(registry) > 0) =>
        /\ MinField(registry, LAMBDA e : e.left_u) = 0
        /\ MinField(registry, LAMBDA e : e.top_u) = 0

(***************************************************************************)
(* C11, C12: records parse_key_layout cannot use, and repeated ids         *)
(***************************************************************************)
\* A key element that lacks required data: no rect, or a position attribute
\* without a numeric token
LacksData(elem) ==
    ~elem.rect.present \/ ~HasNumber(elem.x) \/ ~HasNumber(elem.y)

\* The ids of the key elements that have all their data
ValidIds == {layout[j].key_id : j \in {k \in 1..Len(layout) : ~LacksData(layout[k])}}

\* Some printed line names the key id
Reported(key_id) == \E i \in 1..Len(glog) : key_id \in Range(glog[i].ids)

\* C11: a key element without a rect, or with a position attribute holding
\* no number, never aborts parse_key_layout; when it returns, the registry
\* holds exactly the ids of the other elements, and a printed line reports
\* each skipped element.
C11_InvalidRecordsSkipped ==
    /\ gpc # "raised"
    /\ gpc = "done" =>
          /\ DictKeys(registry) = ValidIds
          /\ \A j \in 1..Len(layout) :
                LacksData(layout[j]) => Reported(layout[j].key_id)

\* The first raw tuple with the id, and whether a later one repeats it
FirstRaw(key_id) ==
    raw[CHOOSE j \in 1..Len(raw) :
            /\ raw[j].key_id = key_id
            /\ \A k \in 1..(j - 1) : raw[k].key_id # key_id]

Repeated(key_id) == Cardinality({j \in 1..Len(raw) : raw[j].key_id = key_id}) > 1

\* C12: when several key elements share an id, the registry returned by
\* parse_key_layout holds the entry of the first of them, and a printed line
\* reports the id of the dropped ones; the run does not abort.
C12_FirstDuplicateWins ==
    gpc = "done" =>
        \A i \in 1..Len(registry) :
            /\ registry[i][2] \in MakeEntries(FirstRaw(registry[i][1]), min_x.val, min_y.val)
            /\ Repeated(registry[i][1]) => Reported(registry[i][1])

(***************************************************************************)
(* C13: what a design-generation run leaves alone                          *)
(***************************************************************************)
\* The written document has the template's top-level fields, each but
\* customizedColor with the template's value
OtherFieldsKept ==
    /\ DOMAIN dout = DOMAIN dbase \cup {"customizedColor"}
    /\ \A f \in DOMAIN dbase \ {"customizedColor"} : dout[f] = dbase[f]

\* C13: the document a design-generation run writes equals the base template
\* in every top-level field other than customizedColor, and no step of the
\* run changes the key registry, the color palette or the template document.
C13_OnlyCustomizedColorChanges ==
    /\ [](dwritten => OtherFieldsKept)
    /\ [][dregistry' = dregistry /\ dpalette' = dpalette /\ dbase' = dbase]_vars

\* C13 witness: a run over a non-empty registry wrote a document whose
\* customizedColor differs from the template's while its name is the
\* template's.
C13_Witness ==
    /\ dpc = "done" /\ dwritten
    /\ Len(dregistry) = 2
    /\ Len(dbase.customizedColor) = 2
    /\ dout.customizedColor # dbase.customizedColor
    /\ dout.name = "base"

(***************************************************************************)
(* C14: the keys of the inverse registry                                   *)
(***************************************************************************)
\* Exactly six lowercase hexadecimal digits
SixHexDigits(key) ==
    /\ Len(key) = 6
    /\ \A i \in 1..Len(key) : key[i] \in Range(HexDigitChars)

\* C14: every key of the document create_hex_color_registry writes is six
\* lowercase hexadecimal digits rrggbb, without a leading '#'.
C14_HexKeysSixDigits ==
    hpc = "done" => \A i \in 1..Len(hout) : SixHexDigits(hout[i][1])

(***************************************************************************)
(* C15: validate_against_sample                                            *)
(***************************************************************************)
\* The ids some section of the reference document mentions and the registry
\* lacks, and the ids of the registry no section mentions
ReferencedAbsent ==
    {k \in sample.customizedColor.keys \cup sample.customizedTemplate.keys
            \cup sample.customizedContent.keys : ~DictHas(registry, k)}

Unreferenced ==
    {k \in DictKeys(registry) :
        k \notin sample.customizedColor.keys \cup sample.customizedTemplate.keys
                    \cup sample.customizedContent.keys}

LinesTagged(tag) == {i \in 1..Len(glog) : glog[i].tag = tag}

ValidationReport ==
    /\ LinesTagged("error") # {} <=> ReferencedAbsent # {}
    /\ \A i \in LinesTagged("error") : glog[i].n = Cardinality(ReferencedAbsent)
    /\ ReferencedAbsent # {} =>
          /\ Cardinality(LinesTagged("error")) = 1
          /\ Cardinality(LinesTagged("list")) = 1
    /\ \A i \in LinesTagged("list") : Range(glog[i].ids) = ReferencedAbsent
    /\ sample.exists => (LinesTagged("info") # {} <=> Unreferenced # {})
    /\ \A i \in LinesTagged("info") :
          glog[i].n = Cardinality(Unreferenced) /\ glog[i].ids = <<>>

\* C15: after validate_against_sample, an error line is printed exactly when
\* the reference document mentions an id the registry lacks, the ids listed
\* are exactly those ids, the ids of the registry that the document does not
\* mention yield an info line and no error, and validation changes neither
\* the registry nor the document written from it.
C15_ValidationReportsMissing ==
    /\ [](gpc = "validated" => ValidationReport)
    /\ [][gpc = "saved" => (registry' = registry /\ gout' = gout)]_vars

\* C15 witness: the registry holds k1 and k2, the reference document
\* mentions k1 and k3, and validation printed the error for k3 and the info
\* line for k2.
C15_Witness ==
    /\ gpc = "validated"
    /\ DictKeys(registry) = {"k1", "k2"}
    /\ sample.customizedColor.keys = {"k1", "k3"}
    /\ \E i \in LinesTagged("list") : glog[i].ids = <<"k3">>
    /\ \E i \in LinesTagged("info") : glog[i].n = 1

(***************************************************************************)
(* C16: the order in which the keys are processed                          *)
(***************************************************************************)
\* The sequential loop of step 4 from position i on: the map it builds, or
\* "raised" when dominant_color or the lookup raises
RECURSIVE SequentialLoop(_, _)
SequentialLoop(i, colors) ==
    IF i > Len(bbox_map) THEN [raised |-> FALSE, colors |-> colors]
    ELSE LET dom == dominant_color(dimg, bbox_map[i][2])
             found == nearest_yuzu_color(dom.rgb, dpalette)
         IN  IF dom.raised \/ found.raised
             THEN [raised |-> TRUE, colors |-> <<>>]
             ELSE SequentialLoop(i + 1, DictSet(colors, bbox_map[i][1], found.code))

\* A dict as the mapping it is
AsMap(d) == {<<d[i][1], d[i][2]>> : i \in 1..Len(d)}

\* C16: whatever the order in which the keys are processed, a run that
\* writes a document writes the customizedColor mapping of the sequential
\* loop, one entry per key, and a run that is aborted is one the sequential
\* loop aborts too.
C16_AnyOrderSameMap ==
    /\ dpc = "done" =>
          /\ ~SequentialLoop(1, <<>>).raised
          /\ AsMap(dout.customizedColor) = AsMap(SequentialLoop(1, <<>>).colors)
          /\ Len(dout.customizedColor) = Len(bbox_map)
    /\ (dpc = "aborted" /\ derror \in {"dominant_color", "AssertionError"}) =>
          SequentialLoop(1, <<>>).raised

\* C16 witness: two keys that get different codes were processed last key
\* first, and the document was written.
C16_Witness ==
    /\ dpc = "done"
    /\ Len(bbox_map) = 2
    /\ Len(dout.customizedColor) = 2
    /\ dout.customizedColor[1][1] = bbox_map[2][1]
    /\ dout.customizedColor[1][2] # dout.customizedColor[2][2]

(***************************************************************************)
(* C17: the region sample_color crops                                      *)
(***************************************************************************)
\* C17: for every image at least one pixel wide and high, smaller than the
\* nominal rectangle or not, the box sample_color crops has
\* 0 <= left < right <= width and 0 <= top < bottom <= height.
C17_CropWithinImage ==
    spc = "done" =>
        /\ 0 <= sbox.left /\ sbox.left < sbox.right /\ sbox.right <= simg.width
        /\ 0 <= sbox.top /\ sbox.top < sbox.bottom /\ sbox.bottom <= simg.height

\* C17 witness: an image of 50 by 10 pixels, left of and above the nominal
\* rectangle, was sampled from its last column and last row.
C17_Witness ==
    /\ spc = "done"
    /\ simg.width = 50 /\ simg.height = 10
    /\ sbox = [left |-> 49, right |-> 50, top |-> 9, bottom |-> 10]

(***************************************************************************)
(* C18: the stored edges of a key                                          *)
(***************************************************************************)
\* C18: every entry of the registry parse_key_layout returns satisfies, at
\* the stored precision of 4 decimals, right_u = left_u + width_u and
\* bottom_u = top_u + height_u.
C18_EdgesAddUp ==
    gpc = "done" =>
        \A i \in 1..Len(registry) :
            LET entry == registry[i][2]
            IN  /\ entry.right_u = entry.left_u + entry.width_u
                /\ entry.bottom_u = entry.top_u + entry.height_u

====
